---- MODULE Spec2Model ----
(***************************************************************************)
(* A model of lib/utils/grpc/stream/stream.go: ReadWriter, the adapter     *)
(* that exposes a message-oriented grpc Source (Send / Recv) as an         *)
(* io.ReadWriteCloser.                                                     *)
(*                                                                         *)
(* Threads call Read, Write and Close concurrently.  A call is split into  *)
(* steps exactly where the code can block: on rLock / wLock and inside     *)
(* Source.Recv, Source.Send and CloseSend.  Everything a call does between *)
(* two blocking points is one step.                                        *)
(*                                                                         *)
(* Byte slices.  The read side copies bytes, so received payloads are      *)
(* sequences of byte values; the Source numbers the bytes it produces      *)
(* 1, 2, 3, ... so that loss, duplication and reordering are visible.      *)
(* The write side never copies: b and chunk are Go slices of the caller's  *)
(* array, modelled as [id, off, len] (the array of Write call id, the      *)
(* offset of the slice in it, its length), which keeps MaxChunkSize at its *)
(* real value.                                                             *)
(*                                                                         *)
(* The end of the module models lib/srv/db/cloud/users/memorydb.go, the    *)
(* fetcher of MemoryDB users and the resource that sets their passwords;   *)
(* its variables are left alone by the adapter and the other way round.    *)
(***************************************************************************)
EXTENDS Integers, Sequences, FiniteSets, TLC

\* stream.go:29
MaxChunkSize == 16384

\* Bounds of the workloads the adapter is checked under (see the end of the
\* module): numbers of calls, and sizes of payloads and buffers.
MaxReads == 3
MaxMsgLen == 2
MaxBufLen == 1
MaxWrites == 2
MaxChunks == 2
ConcCalls == 3

Readers == {"r1", "r2"}
Writers == {"w1", "w2"}
Closers == {"c1"}
Threads == Readers \cup Writers \cup Closers

\* The holder of an unlocked sync.Mutex.
NoOne == "none"

VARIABLES
    clientStream,   \* whether source implements grpc.ClientStream (has CloseSend)
    rLock,          \* holder of c.rLock
    wLock,          \* holder of c.wLock
    rBytes,         \* c.rBytes
    pc,             \* where each thread is in its call
    b,              \* Read's argument b: its length
    wb,             \* Write's argument b: a slice, advanced by the loop
    sent,           \* Write's local sent
    chunk,          \* Write's local chunk
    recvIdx,        \* Read: index in recvLog of the Recv this call made, 0 if none
    recvLog,        \* what Source.Recv returned, in order
    sends,          \* what the Source was asked to send or half-close, in order
    writes,         \* the Write calls in the order they acquired wLock
    readLog,        \* the returns of Read, in order
    writeLog,       \* the returns of Write, in order
    closeLog,       \* the returns of Close, in order
    \* lib/srv/db/cloud/users/memorydb.go: one memoryDBFetcher and one
    \* memoryDBUserResource.
    fpc,            \* where getManagedUsersForACL is
    aclName,        \* getManagedUsersForACL's argument aclName
    pageNum,        \* getUsersForRegion: pageNum
    nextToken,      \* getUsersForRegion: nextToken
    users,          \* getUsersForRegion: users, then getManagedUsersForACL's allUsers
    userIdx,        \* getManagedUsersForACL: the index of the range over allUsers
    managedUsers,   \* getManagedUsersForACL: managedUsers
    describeLog,    \* the DescribeUsers requests and what they returned, in order
    tagLog,         \* the ListTags requests and what they returned, in order
    logs,           \* what the fetcher logged, in order
    fetchLog,       \* the returns of getManagedUsersForACL, in order
    mpc,            \* where ModifyUserPassword is
    mcall,          \* ModifyUserPassword's arguments oldPassword and newPassword
    input,          \* ModifyUserPassword: input
    updateLog,      \* the UpdateUser requests sent, in order
    modifyLog       \* the returns of ModifyUserPassword, in order

fetchVars == <<fpc, aclName, pageNum, nextToken, users, userIdx, managedUsers,
               describeLog, tagLog, logs, fetchLog>>
modifyVars == <<mpc, mcall, input, updateLog, modifyLog>>
mdbVars == <<fetchVars, modifyVars>>

vars == <<clientStream, rLock, wLock, rBytes, pc, b, wb, sent, chunk, recvIdx,
          recvLog, sends, writes, readLog, writeLog, closeLog, mdbVars>>

readVars == <<rLock, rBytes, b, recvIdx, recvLog, readLog>>
writeVars == <<wLock, wb, sent, chunk, sends, writes, writeLog>>
streamVars == <<clientStream, pc, readVars, writeVars, closeLog>>

-----------------------------------------------------------------------------
\* Byte slices of the read side: nil, or a (possibly empty) sequence of bytes.

NilBytes == [nil |-> TRUE, bytes |-> <<>>]
Bytes(s) == [nil |-> FALSE, bytes |-> s]

\* len(s): the length of a nil slice is 0.
len(s) == IF s.nil THEN 0 ELSE Len(s.bytes)

Min(x, y) == IF x < y THEN x ELSE y

\* copy(dst, src) with len(dst) = n: the number of bytes copied.
copy(n, src) == Min(n, len(src))

\* s[n:], which is never nil for a non-nil s, and nil for nil s (n = 0).
SliceFrom(s, n) == IF s.nil THEN s ELSE Bytes(SubSeq(s.bytes, n + 1, Len(s.bytes)))

\* s[:n] as a byte sequence: what copy puts into the caller's buffer.
Prefix(s, n) == IF s.nil THEN <<>> ELSE SubSeq(s.bytes, 1, n)

\* Byte slices of the write side: len bytes of the array of Write call id, from
\* offset off.  NoSlice is the value of a local that holds nothing.
Slice(id, off, n) == [id |-> id, off |-> off, len |-> n]
NoSlice == Slice(0, 0, 0)

\* s[:n] and s[n:] of such a slice.
Take(s, n) == Slice(s.id, s.off, n)
Drop(s, n) == Slice(s.id, s.off + n, s.len - n)

\* Error values.
NoErr == "nil"
EOF == "io.EOF"
OtherErr == "error"
ConnectionProblem == "trace.ConnectionProblem"
BadParameter == "trace.BadParameter"
Wrapped == "trace.Wrap"

\* trace.Wrap(err): nil for nil, a wrapping error otherwise.
Wrap(err) == IF err = NoErr THEN NoErr ELSE Wrapped

-----------------------------------------------------------------------------
\* The Source.

RECURSIVE SumLen(_)
\* The number of bytes the Source has produced in the Recv results of log.
SumLen(log) ==
    IF log = <<>> THEN 0
    ELSE len(log[Len(log)].data) + SumLen(SubSeq(log, 1, Len(log) - 1))

\* The payload of n bytes the Source produces next: its bytes are numbered on.
NextData(n) == Bytes([i \in 1..n |-> SumLen(recvLog) + i])

\* What Source.Recv may return: (data, err).  With a nil err the data is nil,
\* empty or up to MaxMsgLen bytes; with an error it is nil or, for a Source
\* that returns both, one byte.
RecvResults ==
    {[data |-> NilBytes, err |-> e] : e \in {NoErr, EOF, OtherErr}}
    \cup {[data |-> NextData(n), err |-> NoErr] : n \in 0..MaxMsgLen}
    \cup {[data |-> NextData(1), err |-> e] : e \in {EOF, OtherErr}}

\* What Source.Send and CloseSend may return.
SendResults == {NoErr, OtherErr}

-----------------------------------------------------------------------------
TypeOK ==
    /\ clientStream \in BOOLEAN
    /\ rLock \in Readers \cup {NoOne}
    /\ wLock \in Writers \cup Closers \cup {NoOne}
    /\ pc \in [Threads -> {"idle", "rLock", "recv", "copy", "wLock", "loop",
                           "send", "cLock", "closeSend"}]

\* A nil *string: the NextToken of the first request and of the last page.
NoToken == 0

\* newMemoryDBFetcher and a memoryDBUserResource before any call: nothing
\* fetched, nothing cached, nothing requested.
InitMdb ==
    /\ fpc = "idle"
    /\ aclName = ""
    /\ pageNum = 0
    /\ nextToken = NoToken
    /\ users = <<>>
    /\ userIdx = 0
    /\ managedUsers = <<>>
    /\ describeLog = <<>>
    /\ tagLog = <<>>
    /\ logs = <<>>
    /\ fetchLog = <<>>
    /\ mpc = "idle"
    /\ mcall = [old |-> "", new |-> ""]
    /\ input = [userName |-> "", passwords |-> <<>>, type |-> ""]
    /\ updateLog = <<>>
    /\ modifyLog = <<>>

\* NewReadWriter: an adapter around a non-nil source, rBytes nil, both locks
\* free; beside it, the fetcher and the user resource of memorydb.go.
Init ==
    /\ clientStream \in BOOLEAN
    /\ rLock = NoOne
    /\ wLock = NoOne
    /\ rBytes = NilBytes
    /\ pc = [t \in Threads |-> "idle"]
    /\ b = [t \in Readers |-> 0]
    /\ wb = [t \in Writers |-> NoSlice]
    /\ sent = [t \in Writers |-> 0]
    /\ chunk = [t \in Writers |-> NoSlice]
    /\ recvIdx = [t \in Readers |-> 0]
    /\ recvLog = <<>>
    /\ sends = <<>>
    /\ writes = <<>>
    /\ readLog = <<>>
    /\ writeLog = <<>>
    /\ closeLog = <<>>
    /\ InitMdb

Active(S) == {t \in S : pc[t] # "idle"}

\* The number of Read / Write / Close calls made so far.
NumReads == Len(readLog) + Cardinality(Active(Readers))
NumWrites == Len(writeLog) + Cardinality(Active(Writers))
NumCloses == Len(closeLog) + Cardinality(Active(Closers))
NumCalls == NumReads + NumWrites + NumCloses

-----------------------------------------------------------------------------
\* Read (stream.go:66-95)

\* A thread calls Read(b) with len(b) = n and waits for rLock.
ReadCall(t, n) ==
    /\ pc[t] = "idle"
    /\ pc' = [pc EXCEPT ![t] = "rLock"]
    /\ b' = [b EXCEPT ![t] = n]
    /\ UNCHANGED <<mdbVars, clientStream, rLock, rBytes, recvIdx, recvLog, readLog,
                   writeVars, closeLog>>

\* Mutant of ReadMayLock: Read does not wait for the lock.
ReadMayLock_NoWait == TRUE

\* c.rLock.Lock() goes through when nobody holds rLock.
ReadMayLock == rLock = NoOne

\* Mutant of NeedsRecv: Read calls Source.Recv whatever c.rBytes holds.
NeedsRecv_Always == TRUE

\* The test len(c.rBytes) == 0.
NeedsRecv == len(rBytes) = 0

\* c.rLock.Lock(), then the test len(c.rBytes) == 0: call Source.Recv, or go
\* on to the copy.
ReadLock(t) ==
    /\ pc[t] = "rLock"
    /\ ReadMayLock
    /\ rLock' = t
    /\ recvIdx' = [recvIdx EXCEPT ![t] = 0]
    /\ pc' = [pc EXCEPT ![t] = IF NeedsRecv THEN "recv" ELSE "copy"]
    /\ UNCHANGED <<mdbVars, clientStream, rBytes, b, recvLog, readLog, writeVars, closeLog>>

\* Mutant of ReadUnlock: the lock is released on the normal return only.
ReadUnlock_NotOnError(t, err) == IF rLock = t /\ err \in {NoErr, EOF} THEN NoOne ELSE rLock

\* defer c.rLock.Unlock(): rLock after Read returned err.
ReadUnlock(t, err) == IF rLock = t THEN NoOne ELSE rLock

\* Read returns (n, err) with bs the bytes put into b; the deferred Unlock runs.
ReadReturn(t, n, err, bs, idx) ==
    /\ readLog' = Append(readLog, [t |-> t, n |-> n, err |-> err, bytes |-> bs,
                                   blen |-> b[t], recv |-> idx])
    /\ rLock' = ReadUnlock(t, err)
    /\ pc' = [pc EXCEPT ![t] = "idle"]
    /\ b' = [b EXCEPT ![t] = 0]
    /\ recvIdx' = [recvIdx EXCEPT ![t] = 0]

\* Mutant of RecvError: nil data is not tested for, and is taken as a message.
RecvError_NoNilTest(res) ==
    IF res.err = EOF THEN EOF
    ELSE IF res.err # NoErr THEN ConnectionProblem
    ELSE NoErr

\* Mutant of RecvError: the test for any error comes before the test for io.EOF.
RecvError_ErrFirst(res) ==
    IF res.err # NoErr THEN ConnectionProblem
    ELSE IF res.err = EOF THEN EOF
    ELSE IF res.data.nil THEN BadParameter
    ELSE NoErr

\* Mutant of RecvError: the adapter remembers that Close returned and refuses
\* to read afterwards.
RecvError_AfterClose(res) ==
    IF closeLog # <<>> THEN EOF
    ELSE IF res.err = EOF THEN EOF
    ELSE IF res.err # NoErr THEN ConnectionProblem
    ELSE IF res.data.nil THEN BadParameter
    ELSE NoErr

\* The error Read returns for the result res of Source.Recv: io.EOF for
\* io.EOF, a ConnectionProblem for any other error, a BadParameter for nil
\* data, and none (nil) when the data is taken.
RecvError(res) ==
    IF res.err = EOF THEN EOF
    ELSE IF res.err # NoErr THEN ConnectionProblem
    ELSE IF res.data.nil THEN BadParameter
    ELSE NoErr

\* Source.Recv returns res; the error tests and the nil test follow, and
\* c.rBytes = data when they pass.
ReadRecv(t, res) ==
    /\ pc[t] = "recv"
    /\ recvLog' = Append(recvLog, res)
    /\ IF RecvError(res) # NoErr
         THEN /\ ReadReturn(t, 0, RecvError(res), <<>>, Len(recvLog) + 1)
              /\ UNCHANGED rBytes
       ELSE /\ rBytes' = res.data
            /\ recvIdx' = [recvIdx EXCEPT ![t] = Len(recvLog) + 1]
            /\ pc' = [pc EXCEPT ![t] = "copy"]
            /\ UNCHANGED <<rLock, readLog, b>>
    /\ UNCHANGED <<mdbVars, clientStream, writeVars, closeLog>>

\* Mutant of Trim: the buffer is not advanced past the bytes copied.
Trim_NoAdvance(s, n) == IF len(s) = 0 THEN NilBytes ELSE s

\* Mutant of Trim: the drained buffer is kept as an empty slice.
Trim_KeepEmpty(s, n) == SliceFrom(s, n)

\* c.rBytes after n bytes are taken from it: c.rBytes[n:], released when empty.
Trim(s, n) == IF len(SliceFrom(s, n)) = 0 THEN NilBytes ELSE SliceFrom(s, n)

\* n = copy(b, c.rBytes); c.rBytes = c.rBytes[n:]; nil if empty; return n, nil.
ReadCopy(t) ==
    /\ pc[t] = "copy"
    /\ LET n == copy(b[t], rBytes) IN
        /\ rBytes' = Trim(rBytes, n)
        /\ ReadReturn(t, n, NoErr, Prefix(rBytes, n), recvIdx[t])
    /\ UNCHANGED <<mdbVars, clientStream, recvLog, writeVars, closeLog>>

-----------------------------------------------------------------------------
\* Write (stream.go:102-122)

\* A thread calls Write(b) with len(b) = n and waits for wLock.  The call is
\* numbered: b is the whole array of call id.
WriteCall(t, n) ==
    /\ pc[t] = "idle"
    /\ pc' = [pc EXCEPT ![t] = "wLock"]
    /\ wb' = [wb EXCEPT ![t] = Slice(NumWrites + 1, 0, n)]
    /\ UNCHANGED <<mdbVars, clientStream, readVars, wLock, sent, chunk, sends, writes,
                   writeLog, closeLog>>

\* Mutants of WriteMayLock: Write does not wait for the lock; Write waits
\* until the read lock is free as well, as with one lock for both directions.
WriteMayLock_NoWait == TRUE
WriteMayLock_OneLock == wLock = NoOne /\ rLock = NoOne

\* c.wLock.Lock() goes through when nobody holds wLock.
WriteMayLock == wLock = NoOne

\* c.wLock.Lock(); var sent int.  The entry of writes also notes who held
\* rLock at that moment.
WriteLock(t) ==
    /\ pc[t] = "wLock"
    /\ WriteMayLock
    /\ wLock' = t
    /\ sent' = [sent EXCEPT ![t] = 0]
    /\ writes' = Append(writes, [id |-> wb[t].id, t |-> t, len |-> wb[t].len,
                                 rLock |-> rLock])
    /\ pc' = [pc EXCEPT ![t] = "loop"]
    /\ UNCHANGED <<mdbVars, clientStream, readVars, wb, chunk, sends, writeLog, closeLog>>

\* Write returns (n, err); the deferred Unlock runs.
WriteReturn(t, n, err) ==
    /\ writeLog' = Append(writeLog, [id |-> wb[t].id, t |-> t, n |-> n, err |-> err])
    /\ wLock' = IF wLock = t THEN NoOne ELSE wLock
    /\ pc' = [pc EXCEPT ![t] = "idle"]
    /\ wb' = [wb EXCEPT ![t] = NoSlice]
    /\ sent' = [sent EXCEPT ![t] = 0]
    /\ chunk' = [chunk EXCEPT ![t] = NoSlice]

\* Mutant of Chunk: the cut is one byte too long.
Chunk_CutLate(s) == IF s.len > MaxChunkSize THEN Take(s, MaxChunkSize + 1) ELSE s

\* Mutant of Chunk: the cut is one byte too short.
Chunk_CutShort(s) == IF s.len > MaxChunkSize - 1 THEN Take(s, MaxChunkSize - 1) ELSE s

\* The chunk of an iteration: b, cut to MaxChunkSize when longer.
Chunk(s) == IF s.len > MaxChunkSize THEN Take(s, MaxChunkSize) ELSE s

\* Mutant of LoopGoesOn: the test comes after the first Send, not before.
LoopGoesOn_TestAfter(t) == wb[t].len > 0 \/ chunk[t] = NoSlice

\* The loop test len(b) > 0.
LoopGoesOn(t) == wb[t].len > 0

\* The loop test: with len(b) > 0 cut the next chunk and call Source.Send,
\* otherwise return sent, nil.
WriteLoop(t) ==
    /\ pc[t] = "loop"
    /\ IF LoopGoesOn(t)
         THEN /\ chunk' = [chunk EXCEPT ![t] = Chunk(wb[t])]
              /\ pc' = [pc EXCEPT ![t] = "send"]
              /\ UNCHANGED <<wLock, wb, sent, writeLog>>
         ELSE WriteReturn(t, sent[t], NoErr)
    /\ UNCHANGED <<mdbVars, clientStream, readVars, sends, writes, closeLog>>

\* Mutant of SentAfter: the chunk is counted before the error is tested.
SentAfter_CountFirst(t, err) == sent[t] + chunk[t].len

\* sent after Source.Send(chunk) returned err: the chunk counts only when the
\* Send succeeded.
SentAfter(t, err) == IF err # NoErr THEN sent[t] ELSE sent[t] + chunk[t].len

\* Source.Send(chunk) returns err: return sent and a ConnectionProblem, or
\* count the chunk and advance b.
WriteSend(t, err) ==
    /\ pc[t] = "send"
    /\ sends' = Append(sends, [op |-> "Send", t |-> t, chunk |-> chunk[t], err |-> err])
    /\ IF err # NoErr
         THEN WriteReturn(t, SentAfter(t, err), ConnectionProblem)
         ELSE /\ sent' = [sent EXCEPT ![t] = SentAfter(t, err)]
              /\ wb' = [wb EXCEPT ![t] = Drop(wb[t], chunk[t].len)]
              /\ pc' = [pc EXCEPT ![t] = "loop"]
              /\ UNCHANGED <<wLock, chunk, writeLog>>
    /\ UNCHANGED <<mdbVars, clientStream, readVars, writes, closeLog>>

-----------------------------------------------------------------------------
\* Close (stream.go:125-134)

\* Close returns err.  The entry also notes what the holders of wLock and of
\* rLock, if any, were doing when Close returned, and how many Reads had
\* returned by then.
CloseReturn(t, err) ==
    /\ closeLog' = Append(closeLog, [t |-> t, err |-> err,
                                     held |-> IF wLock = NoOne THEN "free" ELSE pc[wLock],
                                     rheld |-> IF rLock = NoOne THEN "free" ELSE pc[rLock],
                                     reads |-> Len(readLog)])
    /\ pc' = [pc EXCEPT ![t] = "idle"]

\* Mutant of IsClientStream: every source is taken to have CloseSend.
IsClientStream_Always == TRUE

\* cstream, ok := c.source.(grpc.ClientStream): ok.
IsClientStream == clientStream

\* A thread calls Close.  The type assertion fails for a source that is no
\* grpc.ClientStream and Close returns trace.Wrap(nil); otherwise the thread
\* waits for wLock.
CloseCall(t) ==
    /\ pc[t] = "idle"
    /\ IF IsClientStream
         THEN /\ pc' = [pc EXCEPT ![t] = "cLock"]
              /\ UNCHANGED closeLog
         ELSE CloseReturn(t, Wrap(NoErr))
    /\ UNCHANGED <<mdbVars, clientStream, readVars, writeVars>>

\* Mutant of CloseMayLock: Close waits until the read lock is free as well.
CloseMayLock_OneLock == wLock = NoOne /\ rLock = NoOne

\* Mutant of CloseMayLock: Close does not wait for the lock.
CloseMayLock_NoWait == TRUE

\* c.wLock.Lock() in Close goes through when nobody holds wLock.
CloseMayLock == wLock = NoOne

\* c.wLock.Lock(), then the call of cstream.CloseSend().
CloseLock(t) ==
    /\ pc[t] = "cLock"
    /\ CloseMayLock
    /\ wLock' = t
    /\ pc' = [pc EXCEPT ![t] = "closeSend"]
    /\ UNCHANGED <<mdbVars, clientStream, readVars, wb, sent, chunk, sends, writes,
                   writeLog, closeLog>>

\* CloseSend returns err; the deferred Unlock runs and Close returns
\* trace.Wrap(err).
CloseSend(t, err) ==
    /\ pc[t] = "closeSend"
    /\ sends' = Append(sends, [op |-> "CloseSend", t |-> t, chunk |-> NoSlice, err |-> err])
    /\ wLock' = IF wLock = t THEN NoOne ELSE wLock
    /\ CloseReturn(t, Wrap(err))
    /\ UNCHANGED <<mdbVars, clientStream, readVars, wb, sent, chunk, writes, writeLog>>

-----------------------------------------------------------------------------
\* The workload of one reader: up to MaxReads Read calls with buffers of up to
\* MaxBufLen bytes, against a Source returning anything in RecvResults.
NextRead ==
    \/ \E n \in 0..MaxBufLen : NumReads < MaxReads /\ ReadCall("r1", n)
    \/ ReadLock("r1")
    \/ \E res \in RecvResults : ReadRecv("r1", res)
    \/ ReadCopy("r1")

SpecRead == Init /\ [][NextRead]_vars

\* The lengths of the buffers written: none, one byte, and the lengths around
\* each multiple of MaxChunkSize up to MaxChunks chunks.
WriteLens ==
    {0, 1} \cup {k * MaxChunkSize + d : k \in 1..MaxChunks, d \in {-1, 0, 1}}

\* The workload of one writer: up to MaxWrites Write calls of the lengths in
\* WriteLens, against a Source whose Send may fail.
NextWrite ==
    \/ \E n \in WriteLens : NumWrites < MaxWrites /\ WriteCall("w1", n)
    \/ WriteLock("w1")
    \/ WriteLoop("w1")
    \/ \E err \in SendResults : WriteSend("w1", err)

SpecWrite == Init /\ [][NextWrite]_vars

\* The concurrent workload: two readers, two writers and a closer call into
\* one adapter, up to ConcCalls calls in all, with
\* reads into one-byte buffers, received messages of two bytes or end of
\* stream, and writes of one byte or of one chunk and a byte.
ConcRecvResults == {[data |-> NextData(2), err |-> NoErr], [data |-> NilBytes, err |-> EOF]}
ConcWriteLens == {1, MaxChunkSize + 1}

Next ==
    \/ \E t \in Readers : NumCalls < ConcCalls /\ ReadCall(t, 1)
    \/ \E t \in Readers : ReadLock(t)
    \/ \E t \in Readers, res \in ConcRecvResults : ReadRecv(t, res)
    \/ \E t \in Readers : ReadCopy(t)
    \/ \E t \in Writers, n \in ConcWriteLens : NumCalls < ConcCalls /\ WriteCall(t, n)
    \/ \E t \in Writers : WriteLock(t)
    \/ \E t \in Writers : WriteLoop(t)
    \/ \E t \in Writers, err \in SendResults : WriteSend(t, err)
    \/ \E t \in Closers : NumCalls < ConcCalls /\ CloseCall(t)
    \/ \E t \in Closers : CloseLock(t)
    \/ \E t \in Closers, err \in SendResults : CloseSend(t, err)

Spec == Init /\ [][Next]_vars

\* The duplex workload: one reader and one writer drive the adapter in
\* opposite directions, up to ConcCalls calls in all.  The specification
\* assumes nothing about scheduling or about the Source returning: a property
\* checked under it states the fairness it relies on.
NextDuplex ==
    \/ NumCalls < ConcCalls /\ ReadCall("r1", 1)
    \/ ReadLock("r1")
    \/ \E res \in ConcRecvResults : ReadRecv("r1", res)
    \/ ReadCopy("r1")
    \/ \E n \in ConcWriteLens : NumCalls < ConcCalls /\ WriteCall("w1", n)
    \/ WriteLock("w1")
    \/ WriteLoop("w1")
    \/ \E err \in SendResults : WriteSend("w1", err)

SpecDuplex == Init /\ [][NextDuplex]_vars

\* The writer thread runs and every Source.Send it is in returns.
WriterRuns ==
    /\ WF_vars(WriteLock("w1"))
    /\ WF_vars(WriteLoop("w1"))
    /\ WF_vars(\E err \in SendResults : WriteSend("w1", err))

\* The reader thread runs and every Source.Recv it is in returns.
ReaderRuns ==
    /\ WF_vars(ReadLock("r1"))
    /\ WF_vars(ReadCopy("r1"))
    /\ WF_vars(\E res \in ConcRecvResults : ReadRecv("r1", res))

\* The closing workload: a reader, a writer and a closer, up to ConcCalls
\* calls in all.  As in the duplex workload, fairness is stated by the
\* properties that rely on it.
NextClose ==
    \/ NumCalls < ConcCalls /\ ReadCall("r1", 1)
    \/ ReadLock("r1")
    \/ \E res \in ConcRecvResults : ReadRecv("r1", res)
    \/ ReadCopy("r1")
    \/ \E n \in ConcWriteLens : NumCalls < ConcCalls /\ WriteCall("w1", n)
    \/ WriteLock("w1")
    \/ WriteLoop("w1")
    \/ \E err \in SendResults : WriteSend("w1", err)
    \/ NumCalls < ConcCalls /\ CloseCall("c1")
    \/ CloseLock("c1")
    \/ \E err \in SendResults : CloseSend("c1", err)

SpecClose == Init /\ [][NextClose]_vars

\* The closer thread runs, gets wLock when it is free again and again (a
\* sync.Mutex does not starve a waiter), and CloseSend returns.
CloserRuns ==
    /\ SF_vars(CloseLock("c1"))
    /\ WF_vars(\E err \in SendResults : CloseSend("c1", err))

-----------------------------------------------------------------------------
\* What the logs say.

RECURSIVE Flatten(_)
\* The concatenation of a sequence of byte sequences.
Flatten(ss) ==
    IF ss = <<>> THEN <<>>
    ELSE Flatten(SubSeq(ss, 1, Len(ss) - 1)) \o ss[Len(ss)]

\* A Recv result Read accepts as a message: a payload and no error.
Accepted(res) == res.err = NoErr /\ ~res.data.nil

\* B: the bytes the Source delivered, message after message.
Received ==
    LET msgs == SelectSeq(recvLog, Accepted)
    IN  Flatten([i \in 1..Len(msgs) |-> msgs[i].data.bytes])

\* The bytes the Reads returned, return after return.
Delivered == Flatten([i \in 1..Len(readLog) |-> readLog[i].bytes])

\* The bytes held in c.rBytes.
Buffered == IF rBytes.nil THEN <<>> ELSE rBytes.bytes

IsPrefix(s, t) == Len(s) <= Len(t) /\ s = SubSeq(t, 1, Len(s))

\* C1: whatever messages the Source delivers and whatever the sizes of the
\* buffers read into, the bytes the Reads have returned are a prefix of the
\* bytes B received, each Read returns as many bytes as it reports and no more
\* than its buffer holds, what is not yet returned is exactly what c.rBytes
\* holds, and so the Reads have returned exactly B once c.rBytes is empty.
C1_ReadsReconstructStream ==
    /\ IsPrefix(Delivered, Received)
    /\ Delivered \o Buffered = Received
    /\ len(rBytes) = 0 => Delivered = Received
    /\ \A i \in 1..Len(readLog) :
        /\ readLog[i].n = Len(readLog[i].bytes)
        /\ readLog[i].n <= readLog[i].blen

\* Three Reads into one-byte buffers have returned, in order, the three bytes
\* of two messages, the first of them delivered in two parts.
C1_Witness ==
    /\ Len(readLog) = 3
    /\ Len(SelectSeq(recvLog, Accepted)) = 2
    /\ len(recvLog[1].data) = 2 /\ recvLog[1].err = NoErr
    /\ Delivered = <<1, 2, 3>>
    /\ Delivered = Received
    /\ readLog[2].recv = 0

\* The Send calls of the log, and their chunks.
IsSend(e) == e.op = "Send"
Sent == SelectSeq(sends, IsSend)

RECURSIVE Coalesce(_)
\* A sequence of slices as bytes: consecutive slices that continue each other
\* in one array are one slice, and empty slices vanish.  Two sequences of
\* slices hold the same bytes exactly when they coalesce to the same sequence.
Coalesce(ss) ==
    IF ss = <<>> THEN <<>>
    ELSE LET init == Coalesce(SubSeq(ss, 1, Len(ss) - 1))
             c == ss[Len(ss)]
         IN  IF c.len = 0 THEN init
             ELSE IF /\ init # <<>>
                     /\ init[Len(init)].id = c.id
                     /\ init[Len(init)].off + init[Len(init)].len = c.off
                  THEN [init EXCEPT ![Len(init)].len = @ + c.len]
                  ELSE Append(init, c)

\* How many bytes of the Write call w (an entry of writes) Write has counted
\* as sent: what it returned, or its sent so far.
Returned(id) == {i \in 1..Len(writeLog) : writeLog[i].id = id}
Progress(w) ==
    IF Returned(w.id) # {} THEN writeLog[CHOOSE i \in Returned(w.id) : TRUE].n
    ELSE sent[w.t]

\* C2: while every Send has succeeded, the chunks passed to Send, in order,
\* hold exactly the bytes of the buffers written, in the order the Writes were
\* admitted: all of a Write that has returned, the first sent bytes of the one
\* in progress.  No chunk is longer than MaxChunkSize.
C2_SendsCarryWrites ==
    /\ \A i \in 1..Len(Sent) : Sent[i].chunk.len <= MaxChunkSize
    /\ (\A i \in 1..Len(Sent) : Sent[i].err = NoErr)
        => /\ Coalesce([i \in 1..Len(Sent) |-> Sent[i].chunk])
                = Coalesce([i \in 1..Len(writes) |->
                               Slice(writes[i].id, 0, Progress(writes[i]))])
           /\ \A i \in 1..Len(writeLog) :
                 /\ writeLog[i].err = NoErr
                 /\ \E j \in 1..Len(writes) :
                       writes[j].id = writeLog[i].id /\ writes[j].len = writeLog[i].n

\* A Write of two chunks and a byte, then a Write of one byte, have returned
\* after four successful Sends.
C2_Witness ==
    /\ Len(writeLog) = 2
    /\ Len(Sent) = 4
    /\ \A i \in 1..4 : Sent[i].err = NoErr
    /\ writeLog[1].n = 2 * MaxChunkSize + 1
    /\ writeLog[2].n = 1

\* A thread is inside Read's or Write's critical section: between Lock and
\* the deferred Unlock.
InRead(t) == pc[t] \in {"recv", "copy"}
InWrite(t) == pc[t] \in {"loop", "send"}

\* C3: at most one Read is inside its critical section at a time and it holds
\* rLock, at most one Write is inside its critical section at a time and it
\* holds wLock.  (That a Read and a Write are inside together is C3_Witness.)
C3_MutualExclusion ==
    /\ Cardinality({t \in Readers : InRead(t)}) <= 1
    /\ Cardinality({t \in Writers : InWrite(t)}) <= 1
    /\ \A t \in Readers : InRead(t) => rLock = t
    /\ \A t \in Writers : InWrite(t) => wLock = t

\* A Read blocked in Recv and a Write blocked in Send, each inside its
\* critical section, while the other reader and the other writer are kept out.
C3_Witness ==
    \E r \in Readers, w \in Writers :
        /\ pc[r] = "recv" /\ pc[w] = "send"
        /\ \E t \in (Readers \cup Writers) \ {r, w} : pc[t] \in {"rLock", "wLock"}

\* C4: a Write that runs and whose Sends return always returns, whatever the
\* reader does, a Read blocked in Recv for ever included; a Read that runs and
\* whose Recv returns always returns, whatever the writer does, a Write
\* blocked in Send for ever included.  So with both running and the Source
\* returning, a Read and a Write called together both return.
C4_DirectionsIndependent ==
    /\ WriterRuns => ((pc["w1"] # "idle") ~> (pc["w1"] = "idle"))
    /\ ReaderRuns => ((pc["r1"] # "idle") ~> (pc["r1"] = "idle"))

\* The reader's only Read is blocked in Recv, holding rLock, and a Write of
\* two chunks that was admitted while the reader held rLock has returned.
C4_Witness ==
    /\ pc["r1"] = "recv" /\ readLog = <<>>
    /\ \E i \in 1..Len(writeLog) : \E j \in 1..Len(writes) :
        /\ writes[j].id = writeLog[i].id
        /\ writes[j].rLock = "r1"
        /\ writeLog[i].n = MaxChunkSize + 1

\* The length of the buffer of Write call id.
LenOf(id) == LET i == CHOOSE i \in 1..Len(writes) : writes[i].id = id IN writes[i].len

\* The bytes of a Read are consecutive bytes of the stream.
Contiguous(bs) == \A i \in 1..Len(bs) - 1 : bs[i + 1] = bs[i] + 1

\* C5: with Writes called concurrently, the Sends the Source sees are the
\* chunks of one Write, from offset 0 on and each continuing the one before,
\* up to the end of its buffer or a failed Send, and only then the chunks of
\* another Write; the chunks of two Writes never interleave.  With Reads
\* called concurrently, each Read returns consecutive bytes of the stream, and
\* the Reads together return the stream in order without loss or repetition.
C5_CallsSerialised ==
    /\ \A i \in 1..Len(Sent) :
        LET c == Sent[i].chunk IN
        /\ IF i > 1 /\ Sent[i - 1].chunk.id = c.id
             THEN /\ Sent[i - 1].err = NoErr
                  /\ c.off = Sent[i - 1].chunk.off + Sent[i - 1].chunk.len
             ELSE /\ c.off = 0
                  /\ \A k \in 1..(i - 1) : Sent[k].chunk.id # c.id
        /\ (i < Len(Sent) /\ Sent[i + 1].chunk.id # c.id)
             => (Sent[i].err # NoErr \/ c.off + c.len = LenOf(c.id))
    /\ \A i \in 1..Len(readLog) : Contiguous(readLog[i].bytes)
    /\ Delivered \o Buffered = Received

\* One Write has sent both its chunks while the Write of the other thread,
\* called meanwhile, still waits for wLock.
C5_Witness ==
    \E w \in Writers, v \in Writers :
        /\ w # v
        /\ pc[w] = "loop" /\ sent[w] = MaxChunkSize + 1
        /\ pc[v] = "wLock" /\ wb[v].len = MaxChunkSize + 1
        /\ Len(Sent) = 2

\* The half-closes of the log.
IsCloseSend(e) == e.op = "CloseSend"
CloseSends == SelectSeq(sends, IsCloseSend)

\* C9: on a source without CloseSend, Close returns within the step that
\* calls it, whoever holds wLock: it returns nil, it never holds or waits for
\* wLock, no half-close reaches the Source, and the step changes nothing of
\* the adapter or the Source: no Send, no Recv, both locks and c.rBytes as
\* they were.
C9_CloseWithoutCloseSend ==
    /\ [](~clientStream =>
            /\ \A t \in Closers : pc[t] = "idle"
            /\ wLock \notin Closers
            /\ \A i \in 1..Len(closeLog) : closeLog[i].err = NoErr
            /\ CloseSends = <<>>)
    /\ [][(~clientStream /\ closeLog' # closeLog)
            => UNCHANGED <<sends, recvLog, rBytes, rLock, wLock, readLog, writeLog>>]_vars

\* Close has returned on a source without CloseSend while a Write, blocked in
\* Send, held wLock.
C9_Witness ==
    /\ ~clientStream
    /\ \E i \in 1..Len(closeLog) : closeLog[i].held = "send" /\ closeLog[i].err = NoErr

\* C10: on a source with CloseSend, Close calls CloseSend only while it holds
\* wLock and no Write is inside its critical section, so that in what the
\* Source sees no half-close stands between two chunks of one Write; and the
\* Closes return an error exactly where CloseSend did.
C10_CloseSendUnderWriteLock ==
    clientStream =>
        /\ \A t \in Closers : pc[t] = "closeSend"
              => (wLock = t /\ \A w \in Writers : ~InWrite(w))
        /\ \A i \in 1..Len(sends) : \A j \in (i + 1)..Len(sends) : \A k \in (j + 1)..Len(sends) :
              ~ (/\ IsSend(sends[i]) /\ IsSend(sends[k])
                 /\ sends[i].chunk.id = sends[k].chunk.id
                 /\ IsCloseSend(sends[j]))
        /\ Len(closeLog) = Len(CloseSends)
        /\ \A i \in 1..Len(closeLog) :
              (closeLog[i].err # NoErr) <=> (CloseSends[i].err # NoErr)

\* Close, called while a Write stands between its two chunks (the first is
\* sent, the second is in Send), waits for wLock: no half-close has been made.
C10_Witness ==
    /\ clientStream
    /\ \E t \in Closers, w \in Writers :
        /\ pc[t] = "cLock"
        /\ pc[w] = "send" /\ wLock = w
        /\ sent[w] = MaxChunkSize /\ chunk[w].off = MaxChunkSize
    /\ Len(Sent) = 1
    /\ CloseSends = <<>>

\* The Recv result behind a Read return e, where the Read made a Recv.
RecvOf(e) == recvLog[e.recv]

\* C6 as stated: a Read whose Recv delivered no payload bytes, no end of
\* stream and no error returns an invalid-data error, never (0, nil).
C6_NoPayloadBytesIsInvalid ==
    \A i \in 1..Len(readLog) :
        LET e == readLog[i] IN
        (e.recv # 0 /\ RecvOf(e).err = NoErr /\ len(RecvOf(e).data) = 0)
            => (e.err = BadParameter /\ ~(e.n = 0 /\ e.err = NoErr))

\* C6 as amended: a Read whose Recv returned nil data and a nil error
\* returns 0 bytes and an invalid-data error, and only such a Read returns
\* that error; a Read whose Recv returned data that is not nil but empty, and
\* a nil error, takes it as a message and returns (0, nil).
C6_NilDataIsInvalid ==
    \A i \in 1..Len(readLog) :
        LET e == readLog[i] IN
        /\ (e.recv # 0 /\ RecvOf(e).err = NoErr /\ RecvOf(e).data.nil)
              => (e.n = 0 /\ e.err = BadParameter)
        /\ e.err = BadParameter
              => (e.recv # 0 /\ RecvOf(e).err = NoErr /\ RecvOf(e).data.nil)
        /\ (e.recv # 0 /\ RecvOf(e).err = NoErr /\ ~RecvOf(e).data.nil
               /\ len(RecvOf(e).data) = 0)
              => (e.n = 0 /\ e.err = NoErr)

\* One Read has returned the invalid-data error for a Recv of (nil, nil) and
\* the next has returned (0, nil), into a buffer with room, for a Recv of
\* empty data.
C6_Witness ==
    /\ Len(readLog) = 2
    /\ recvLog[1] = [data |-> NilBytes, err |-> NoErr]
    /\ readLog[1].err = BadParameter
    /\ recvLog[2] = [data |-> Bytes(<<>>), err |-> NoErr]
    /\ readLog[2].n = 0 /\ readLog[2].err = NoErr /\ readLog[2].blen = 1

\* C7: Recv is called only with c.rBytes empty, and a Read whose Recv
\* signalled io.EOF, with or without data, returns 0 bytes and io.EOF, not a
\* connectivity or invalid-data error; c.rBytes is still empty (nil) when it
\* has returned.
C7_EndOfStream ==
    /\ \A t \in Readers : pc[t] = "recv" => len(rBytes) = 0
    /\ \A i \in 1..Len(readLog) :
        LET e == readLog[i] IN
        /\ (e.recv # 0 /\ RecvOf(e).err = EOF)
              => (e.n = 0 /\ e.bytes = <<>> /\ e.err = EOF)
        /\ e.err = EOF => (e.recv # 0 /\ RecvOf(e).err = EOF)
    /\ (readLog # <<>> /\ readLog[Len(readLog)].err = EOF
          /\ readLog[Len(readLog)].recv = Len(recvLog))
          => rBytes = NilBytes

\* A Read has returned the one byte of a message, and the next Read, its
\* buffer empty, has returned (0, io.EOF) for a Recv that signalled io.EOF.
C7_Witness ==
    /\ Len(readLog) = 2
    /\ readLog[1].n = 1 /\ readLog[1].err = NoErr
    /\ recvLog[2].err = EOF
    /\ readLog[2].n = 0 /\ readLog[2].err = EOF
    /\ rBytes = NilBytes /\ rLock = NoOne

\* The Sends of Write call id that succeeded.
OkSends(id) == {i \in 1..Len(Sent) : Sent[i].chunk.id = id /\ Sent[i].err = NoErr}

\* C8: a Send that fails is the last Send of its Write: the same chunk is not
\* sent again and no later chunk is sent.  That Write has returned, in the
\* same step, a ConnectionProblem and the number of bytes of its chunks sent
\* before: the offset of the failed chunk, which is MaxChunkSize times the
\* number of its successful Sends and less than the length of its buffer.
\* A Write returns a ConnectionProblem only after such a Send.
C8_FailedSendStopsWrite ==
    /\ \A i \in 1..Len(Sent) :
        Sent[i].err # NoErr =>
            LET id == Sent[i].chunk.id IN
            /\ \A j \in (i + 1)..Len(Sent) : Sent[j].chunk.id # id
            /\ \E k \in 1..Len(writeLog) :
                /\ writeLog[k].id = id
                /\ writeLog[k].err = ConnectionProblem
                /\ writeLog[k].n = Sent[i].chunk.off
                /\ writeLog[k].n = MaxChunkSize * Cardinality(OkSends(id))
                /\ writeLog[k].n % MaxChunkSize = 0
                /\ writeLog[k].n < LenOf(id)
    /\ \A k \in 1..Len(writeLog) :
        /\ writeLog[k].err \in {NoErr, ConnectionProblem}
        /\ writeLog[k].err = ConnectionProblem
              => \E i \in 1..Len(Sent) :
                    Sent[i].chunk.id = writeLog[k].id /\ Sent[i].err # NoErr

\* A Write of two chunks and a byte has failed on its third chunk and returned
\* 2 * MaxChunkSize, and the next Write has sent its byte.
C8_Witness ==
    /\ Len(writeLog) = 2
    /\ Len(Sent) = 4
    /\ Sent[3].err # NoErr /\ Sent[3].chunk.len = 1
    /\ writeLog[1].n = 2 * MaxChunkSize /\ writeLog[1].err = ConnectionProblem
    /\ writeLog[2].n = 1 /\ writeLog[2].err = NoErr

\* The Sends of Write call id, in order.
SendsOf(id) == LET Of(e) == e.chunk.id = id IN SelectSeq(Sent, Of)

\* ceil(n / MaxChunkSize).
Ceil(n) == (n + MaxChunkSize - 1) \div MaxChunkSize

\* C11: a Write that returned n > 0 and no error made exactly
\* ceil(n / MaxChunkSize) Sends, n being the length of its buffer; every one
\* but the last carries exactly MaxChunkSize bytes and the last carries the
\* rest.  So 16384 bytes go in one message, and 16385 bytes in two, of 16384
\* bytes and of 1 byte.
C11_ChunkCount ==
    \A k \in 1..Len(writeLog) :
        LET e == writeLog[k]
            ss == SendsOf(e.id)
        IN  (e.err = NoErr /\ e.n > 0) =>
              /\ e.n = LenOf(e.id)
              /\ Len(ss) = Ceil(e.n)
              /\ \A i \in 1..(Len(ss) - 1) : ss[i].chunk.len = MaxChunkSize
              /\ ss[Len(ss)].chunk.len = e.n - (Len(ss) - 1) * MaxChunkSize
              /\ e.n = 16384 => Len(ss) = 1
              /\ e.n = 16385 => (Len(ss) = 2 /\ ss[1].chunk.len = 16384
                                  /\ ss[2].chunk.len = 1)

\* A Write of 16384 bytes has returned after one Send and a Write of 16385
\* bytes after two more.
C11_Witness ==
    /\ Len(writeLog) = 2
    /\ writeLog[1].n = 16384 /\ writeLog[1].err = NoErr
    /\ writeLog[2].n = 16385 /\ writeLog[2].err = NoErr
    /\ Len(Sent) = 3

\* C17: a Write of an empty buffer returns (0, nil) and makes no Send; every
\* chunk passed to Send, by any Write, is 1 to MaxChunkSize bytes long.
C17_NoEmptyMessage ==
    /\ \A k \in 1..Len(writeLog) :
        LenOf(writeLog[k].id) = 0 =>
            /\ writeLog[k].n = 0 /\ writeLog[k].err = NoErr
            /\ SendsOf(writeLog[k].id) = <<>>
    /\ \A t \in Writers : (pc[t] = "send") => chunk[t].len >= 1
    /\ \A i \in 1..Len(Sent) :
        Sent[i].chunk.len >= 1 /\ Sent[i].chunk.len <= MaxChunkSize

\* A Write of an empty buffer has returned (0, nil) with nothing sent, and the
\* next Write has sent its one byte.
C17_Witness ==
    /\ Len(writeLog) = 2
    /\ writes[1].len = 0
    /\ writeLog[1].n = 0 /\ writeLog[1].err = NoErr
    /\ writeLog[2].n = 1
    /\ Len(Sent) = 1 /\ Sent[1].chunk.id = writeLog[2].id

\* The number of Recv calls made by the Reads that returned before the i-th.
RecvsBefore(i) ==
    LET made == {readLog[j].recv : j \in 1..(i - 1)} \cup {0}
    IN  CHOOSE m \in made : \A x \in made : x <= m

\* The number of bytes in the messages accepted from the first k Recv calls.
BytesAccepted(k) ==
    LET msgs == SelectSeq(SubSeq(recvLog, 1, k), Accepted)
    IN  Len(Flatten([i \in 1..Len(msgs) |-> msgs[i].data.bytes]))

\* The number of bytes returned by the Reads before the i-th.
DeliveredBefore(i) == Len(Flatten([j \in 1..(i - 1) |-> readLog[j].bytes]))

\* The number of bytes c.rBytes held when the i-th Read (of one reader) began.
BufferedAtEntry(i) == BytesAccepted(RecvsBefore(i)) - DeliveredBefore(i)

\* C12: every Recv is made by one Read, and a Read makes at most one.  A Read
\* that finds bytes in c.rBytes makes none and returns from those bytes; only
\* a Read that finds c.rBytes empty calls Recv, once.  So the rest of a message
\* longer than the buffer read into is returned by the following Reads without
\* another Recv.
C12_OneRecvPerRead ==
    /\ \A t \in Readers : pc[t] = "recv" => len(rBytes) = 0
    /\ Len(recvLog) = Cardinality({i \in 1..Len(readLog) : readLog[i].recv # 0})
                        + Cardinality({t \in Readers : pc[t] = "copy" /\ recvIdx[t] # 0})
    /\ \A i \in 1..Len(readLog) :
        IF BufferedAtEntry(i) > 0
          THEN /\ readLog[i].recv = 0
               /\ readLog[i].n = Min(readLog[i].blen, BufferedAtEntry(i))
          ELSE readLog[i].recv = RecvsBefore(i) + 1

\* A message of two bytes, received by the first Read into a one-byte buffer,
\* is finished by the second Read without a Recv; the third Read calls Recv.
C12_Witness ==
    /\ Len(readLog) = 3
    /\ readLog[1].recv = 1 /\ len(recvLog[1].data) = 2 /\ readLog[1].n = 1
    /\ readLog[2].recv = 0 /\ readLog[2].bytes = <<2>>
    /\ readLog[3].recv = 2
    /\ Len(recvLog) = 2

\* The last message accepted from the Source.
LastMessage ==
    LET msgs == SelectSeq(recvLog, Accepted) IN msgs[Len(msgs)].data.bytes

IsSuffix(s, t) == Len(s) <= Len(t) /\ s = SubSeq(t, Len(t) - Len(s) + 1, Len(t))

\* C13: while no Read is inside its critical section, c.rBytes is nil or holds
\* at least one byte, never an empty slice that is not nil; and the bytes it
\* holds are the end of the last message accepted, namely the bytes received
\* and not yet returned by any Read.
C13_BufferNilOrUnread ==
    (\A t \in Readers : ~InRead(t)) =>
        /\ rBytes = NilBytes \/ len(rBytes) > 0
        /\ len(rBytes) > 0 =>
              /\ SelectSeq(recvLog, Accepted) # <<>>
              /\ IsSuffix(rBytes.bytes, LastMessage)
              /\ Delivered \o rBytes.bytes = Received

\* After an empty message, returned as (0, nil), and a Read into an empty
\* buffer that received two bytes and returned none, a Read has returned the
\* first of them and c.rBytes holds the second.
C13_Witness ==
    /\ \A t \in Readers : pc[t] = "idle"
    /\ Len(readLog) = 3
    /\ recvLog[1].data = Bytes(<<>>) /\ recvLog[1].err = NoErr
    /\ readLog[2].blen = 0 /\ readLog[2].recv = 2 /\ readLog[2].n = 0
    /\ readLog[3].bytes = <<1>>
    /\ rBytes = Bytes(<<2>>)

\* The Read return e made a Recv that failed with an error other than io.EOF.
RecvFailed(e) == e.recv # 0 /\ RecvOf(e).err \notin {NoErr, EOF}

\* C14: a Read whose Recv failed with an error other than io.EOF returns 0
\* bytes and a ConnectionProblem, and only such a Read does; it made that one
\* Recv; c.rBytes is empty and rLock free when it has returned.  The Read
\* after it calls Recv anew and returns what that Recv gave: its bytes, io.EOF,
\* the invalid-data error, or a ConnectionProblem again.
C14_RecvFailure ==
    /\ \A i \in 1..Len(readLog) :
        LET e == readLog[i] IN
        /\ RecvFailed(e) => (e.n = 0 /\ e.bytes = <<>> /\ e.err = ConnectionProblem)
        /\ e.err = ConnectionProblem => RecvFailed(e)
        /\ (RecvFailed(e) /\ i < Len(readLog)) =>
              LET f == readLog[i + 1] IN
              /\ f.recv = e.recv + 1
              /\ Accepted(RecvOf(f)) =>
                    (f.err = NoErr
                     /\ f.bytes = Prefix(RecvOf(f).data, Min(f.blen, len(RecvOf(f).data))))
              /\ RecvOf(f).err = EOF => f.err = EOF
              /\ RecvOf(f).err = OtherErr => f.err = ConnectionProblem
              /\ (RecvOf(f).err = NoErr /\ RecvOf(f).data.nil) => f.err = BadParameter
    /\ (readLog # <<>> /\ RecvFailed(readLog[Len(readLog)])
          /\ readLog[Len(readLog)].recv = Len(recvLog))
          => rBytes = NilBytes
    /\ (\A t \in Readers : ~InRead(t)) => rLock = NoOne

\* A Read has returned a ConnectionProblem for a failed Recv, and the next
\* Read has called Recv again and returned the byte it gave.
C14_Witness ==
    /\ Len(readLog) = 2
    /\ recvLog[1].err = OtherErr
    /\ readLog[1].n = 0 /\ readLog[1].err = ConnectionProblem
    /\ readLog[2].recv = 2 /\ readLog[2].n = 1 /\ readLog[2].err = NoErr
    /\ rLock = NoOne

\* C15: Close never takes rLock and waits for nothing but wLock: with wLock
\* free its Lock goes through whoever holds rLock, so a Close that runs, with
\* the writer running and the Source returning from Send and CloseSend,
\* always returns, a Read blocked in Recv for ever included.  And a Close is
\* inside CloseSend only as the holder of wLock, with no Write between its
\* Lock and its return.
C15_CloseWaitsForWriteOnly ==
    /\ [](/\ rLock \notin Closers
          /\ \A c \in Closers :
              /\ (pc[c] = "cLock" /\ wLock = NoOne) => ENABLED CloseLock(c)
              /\ pc[c] = "closeSend" => (wLock = c /\ \A w \in Writers : ~InWrite(w))
              /\ (pc[c] = "cLock" /\ \E w \in Writers : InWrite(w)) => ~ENABLED CloseLock(c))
    /\ (CloserRuns /\ WriterRuns) => ((pc["c1"] # "idle") ~> (pc["c1"] = "idle"))

\* On a source with CloseSend, Close has returned while the reader's only
\* Read was blocked in Recv, holding rLock.
C15_Witness ==
    /\ clientStream
    /\ pc["r1"] = "recv" /\ readLog = <<>>
    /\ \E i \in 1..Len(closeLog) : closeLog[i].rheld = "recv"

\* A Close has returned.
Closed == closeLog # <<>>

\* The Reads that returned after the first Close did.
ReadsAfterClose == (closeLog[1].reads + 1)..Len(readLog)

\* C16: a step of Close changes nothing of the read side and none of a Write's
\* variables.  Once a Close has returned, the bytes received are still the
\* bytes returned followed by the bytes buffered, a Read or Write waiting for
\* its lock gets it when it is free, a Read that finds c.rBytes empty goes on
\* to Recv and one that finds bytes goes on to copy them, a Write with bytes
\* left goes on to Send, and Recv and Send may return anything the Source
\* returns.  A Read returned after Close fails only when its Recv did not
\* deliver a message, and a Write fails only when a Send of its failed.
C16_CloseKeepsNoState ==
    /\ [][(\E c \in Closers : pc'[c] # pc[c])
            => UNCHANGED <<readVars, wb, sent, chunk, writes, writeLog>>]_vars
    /\ [](Closed =>
          /\ Received = Delivered \o Buffered
          /\ \A t \in Readers :
              /\ (pc[t] = "rLock" /\ rLock = NoOne) => ENABLED ReadLock(t)
              /\ pc[t] = "recv" => \A res \in ConcRecvResults : ENABLED ReadRecv(t, res)
          /\ \A w \in Writers :
              /\ (pc[w] = "wLock" /\ wLock = NoOne) => ENABLED WriteLock(w)
              /\ pc[w] = "send" => \A err \in SendResults : ENABLED WriteSend(w, err)
          /\ \A i \in ReadsAfterClose :
              IF readLog[i].recv = 0
                THEN readLog[i].err = NoErr /\ readLog[i].n > 0
                ELSE (readLog[i].err = NoErr) <=> Accepted(recvLog[readLog[i].recv])
          /\ \A i \in 1..Len(writeLog) :
              writeLog[i].err # NoErr
                => \E j \in 1..Len(Sent) : /\ Sent[j].chunk.id = writeLog[i].id
                                           /\ Sent[j].err # NoErr)
    /\ [][Closed =>
            /\ \A t \in Readers : (pc[t] = "rLock" /\ pc'[t] # "rLock")
                  => pc'[t] = IF len(rBytes) = 0 THEN "recv" ELSE "copy"
            /\ \A w \in Writers : (pc[w] = "loop" /\ wb[w].len > 0 /\ pc'[w] # "loop")
                  => pc'[w] = "send"]_vars

\* The first Read took one byte of a two-byte message, Close returned, and
\* the next Read returned the second byte without a Recv.
C16_Witness ==
    /\ Closed /\ closeLog[1].reads = 1
    /\ Len(readLog) = 2 /\ Len(recvLog) = 1
    /\ readLog[2].recv = 0 /\ readLog[2].err = NoErr
    /\ Delivered = <<1, 2>>

-----------------------------------------------------------------------------
(***************************************************************************)
(* lib/srv/db/cloud/users/memorydb.go: the fetcher of MemoryDB users.      *)
(*                                                                         *)
(* getManagedUsersForACL is split into steps at its requests to the        *)
(* provider, DescribeUsers and ListTags.  The fetcher is fresh: its cache  *)
(* is empty, so FnCacheGet runs the function it is given.  The provider    *)
(* numbers the users it lists 1, 2, 3, ... (their ARNs).  A tag is the     *)
(* pair of the outcomes of the two tests the code makes on it: whether its *)
(* key is libaws.TagKeyTeleportManaged and whether libaws.IsTagValueTrue   *)
(* accepts its value.                                                      *)
(***************************************************************************)

\* common.MaxPages bounds the pages of one listing; the loop is checked for a
\* small value.  The provider lists up to MaxUsers users in all, and they
\* carry up to MaxTags tags in all.
MaxPages == 2
MaxUsers == 2
MaxTags == 2

\* The ACL asked for, and the ACLNames a listed user may have.
ACLs == {"acl1"}
ACLNameLists == {<<>>, <<"acl2">>, <<"acl2", "acl1">>}

AccessDenied == "trace.AccessDenied"

\* slices.Contains(s, x).
Contains(s, x) == \E i \in 1..Len(s) : s[i] = x

\* The pages the provider may return after having listed k users.
Pages(k) ==
    UNION {{[i \in 1..n |-> [arn |-> k + i, acls |-> f[i]]] : f \in [1..n -> ACLNameLists]}
           : n \in 0..(MaxUsers - k)}

\* What DescribeUsersWithContext may return: an error, or a page of users
\* with or without a next token (the tokens are numbered with the requests).
DescribeResults ==
    {[users |-> <<>>, nextToken |-> NoToken, err |-> OtherErr]}
    \cup {[users |-> p, nextToken |-> tok, err |-> NoErr] :
            p \in Pages(Len(users)), tok \in {NoToken, Len(describeLog) + 1}}

Tags == {[isManagedKey |-> TRUE, isValueTrue |-> TRUE],
         [isManagedKey |-> TRUE, isValueTrue |-> FALSE],
         [isManagedKey |-> FALSE, isValueTrue |-> TRUE]}

\* The number of tags the provider has listed so far.
TagsListed == Len(Flatten([i \in 1..Len(tagLog) |-> tagLog[i].res.tags]))

\* The tag lists the provider may return next.
TagLists == UNION {[1..n -> Tags] : n \in 0..(MaxTags - TagsListed)}

\* What getUserTags may return: the error ListTagsWithContext failed with,
\* converted and wrapped, or the TagList.
ListTagsResults ==
    {[tags |-> <<>>, err |-> e] : e \in {AccessDenied, OtherErr}}
    \cup {[tags |-> l, err |-> NoErr] : l \in TagLists}

\* Mutant of MorePages: the loop makes one page too many.
MorePages_OneMore(n) == n <= MaxPages

\* The loop test pageNum < common.MaxPages.
MorePages(n) == n < MaxPages

\* A thread calls getManagedUsersForACL(ctx, region, acl, client), which
\* calls getUsersForRegion: users and nextToken are nil, pageNum is 0.
GetManagedUsersCall(acl) ==
    /\ fpc = "idle"
    /\ aclName' = acl
    /\ pageNum' = 0
    /\ nextToken' = NoToken
    /\ users' = <<>>
    /\ managedUsers' = <<>>
    /\ userIdx' = 1
    /\ fpc' = IF MorePages(0) THEN "describe" ELSE "range"
    /\ UNCHANGED <<describeLog, tagLog, logs, fetchLog, modifyVars, streamVars>>

\* getManagedUsersForACL returns (us, err).
FetchReturn(us, err) ==
    /\ fetchLog' = Append(fetchLog, [users |-> us, err |-> err])
    /\ fpc' = "idle"

\* nextToken = output.NextToken; nextToken == nil.
LastPage(res) == res.nextToken = NoToken

\* One turn of the loop of getUsersForRegion: DescribeUsersWithContext with
\* nextToken returns res.  An error ends the call with (nil, error);
\* otherwise the page is appended, and the loop ends at a page without a next
\* token or when pageNum reaches common.MaxPages.
DescribeUsers(res) ==
    /\ fpc = "describe"
    /\ describeLog' = Append(describeLog, [token |-> nextToken, res |-> res])
    /\ IF res.err # NoErr
         THEN /\ FetchReturn(<<>>, Wrap(res.err))
              /\ UNCHANGED <<users, nextToken, pageNum>>
       ELSE /\ users' = users \o res.users
            /\ nextToken' = res.nextToken
            /\ IF LastPage(res)
                 THEN /\ fpc' = "range"
                      /\ UNCHANGED pageNum
               ELSE /\ pageNum' = pageNum + 1
                    /\ fpc' = IF MorePages(pageNum + 1) THEN "describe" ELSE "range"
            /\ UNCHANGED fetchLog
    /\ UNCHANGED <<aclName, userIdx, managedUsers, tagLog, logs, modifyVars, streamVars>>

\* One turn of the range over allUsers up to the call of getUserTags: a user
\* whose ACLNames lack aclName is passed over; after the last user the
\* call returns (managedUsers, nil).
RangeUsers ==
    /\ fpc = "range"
    /\ IF userIdx > Len(users)
         THEN /\ FetchReturn(managedUsers, NoErr)
              /\ UNCHANGED userIdx
       ELSE /\ IF ~Contains(users[userIdx].acls, aclName)
                 THEN userIdx' = userIdx + 1 /\ UNCHANGED fpc
                 ELSE fpc' = "tags" /\ UNCHANGED userIdx
            /\ UNCHANGED fetchLog
    /\ UNCHANGED <<aclName, pageNum, nextToken, users, managedUsers,
                   describeLog, tagLog, logs, modifyVars, streamVars>>

\* aws.StringValue(tag.Key) == libaws.TagKeyTeleportManaged &&
\* libaws.IsTagValueTrue(aws.StringValue(tag.Value)).
IsManagedTag(tag) == tag.isManagedKey /\ tag.isValueTrue

\* Mutant of AfterMatch: the loop over the tags goes on after a match.
AfterMatch_NoBreak(tags) == tags

\* break: the tags left to look at after a match.
AfterMatch(tags) == <<>>

RECURSIVE ScanTags(_, _, _)
\* managedUsers after the loop over a user's tags.
ScanTags(managed, user, tags) ==
    IF tags = <<>> THEN managed
    ELSE IF IsManagedTag(Head(tags))
           THEN ScanTags(Append(managed, user), user, AfterMatch(Tail(tags)))
         ELSE ScanTags(managed, user, Tail(tags))

\* trace.IsAccessDenied(err).
IsAccessDenied(err) == err = AccessDenied

\* getUserTags returns res for the user the range is at.  An error is logged
\* (Debugf for access denied, Warnf otherwise) and the user passed over;
\* otherwise the user is appended if one of its tags is the managed tag.
ListTags(res) ==
    /\ fpc = "tags"
    /\ tagLog' = Append(tagLog, [arn |-> users[userIdx].arn, res |-> res])
    /\ IF res.err # NoErr
         THEN /\ logs' = Append(logs, [level |-> IF IsAccessDenied(res.err) THEN "debug" ELSE "warn",
                                       arn |-> users[userIdx].arn])
              /\ UNCHANGED managedUsers
       ELSE /\ managedUsers' = ScanTags(managedUsers, users[userIdx], res.tags)
            /\ UNCHANGED logs
    /\ userIdx' = userIdx + 1
    /\ fpc' = "range"
    /\ UNCHANGED <<aclName, pageNum, nextToken, users, describeLog, fetchLog,
                   modifyVars, streamVars>>

\* The user of the memoryDBUserResource, and the passwords it is given.
UserName == "user1"
PasswordArgs == {"", "p1", "p2"}

\* What UpdateUserWithContext may return.
UpdateResults == {NoErr, OtherErr}

\* Mutant of Passwords: the new password is put before the old one.
Passwords_NewFirst(old, new) ==
    (IF new # "" THEN <<new>> ELSE <<>>) \o (IF old # "" THEN <<old>> ELSE <<>>)

\* input.AuthenticationMode.Passwords after the two appends.
Passwords(old, new) ==
    LET afterOld == IF old # "" THEN Append(<<>>, old) ELSE <<>>
    IN  IF new # "" THEN Append(afterOld, new) ELSE afterOld

\* The type set on input.AuthenticationMode.
AuthType(passwords) == IF Len(passwords) = 0 THEN "no-password" ELSE "password"

\* ModifyUserPassword(ctx, old, new) builds input and sends it in an
\* UpdateUser request.
ModifyCall(old, new) ==
    /\ mpc = "idle"
    /\ mcall' = [old |-> old, new |-> new]
    /\ input' = [userName |-> UserName,
                 passwords |-> Passwords(old, new),
                 type |-> AuthType(Passwords(old, new))]
    /\ updateLog' = Append(updateLog, input')
    /\ mpc' = "update"
    /\ UNCHANGED <<modifyLog, fetchVars, streamVars>>

\* UpdateUserWithContext returns err: ModifyUserPassword returns the error
\* converted and wrapped, or nil.
UpdateUser(err) ==
    /\ mpc = "update"
    /\ modifyLog' = Append(modifyLog, [old |-> mcall.old, new |-> mcall.new,
                                       reqErr |-> err, err |-> Wrap(err)])
    /\ mpc' = "idle"
    /\ UNCHANGED <<mcall, input, updateLog, fetchVars, streamVars>>

-----------------------------------------------------------------------------
\* The fetching workload: one call of getManagedUsersForACL on a fresh
\* fetcher, against a provider returning anything in DescribeResults and
\* ListTagsResults.
NextFetch ==
    \/ \E acl \in ACLs : fetchLog = <<>> /\ GetManagedUsersCall(acl)
    \/ \E res \in DescribeResults : DescribeUsers(res)
    \/ RangeUsers
    \/ \E res \in ListTagsResults : ListTags(res)

SpecFetch == Init /\ [][NextFetch]_vars

\* The fetching thread runs and every DescribeUsers request returns.
FetcherRuns == WF_vars(\E res \in DescribeResults : DescribeUsers(res))

\* The rotating workload: up to MaxModifies calls of ModifyUserPassword, one
\* after the other, with any passwords in PasswordArgs.
MaxModifies == 2

NextModify ==
    \/ \E old \in PasswordArgs, new \in PasswordArgs :
          Len(updateLog) < MaxModifies /\ ModifyCall(old, new)
    \/ \E err \in UpdateResults : UpdateUser(err)

SpecModify == Init /\ [][NextModify]_vars

-----------------------------------------------------------------------------
\* The users the provider listed, page after page.
Listed == Flatten([i \in 1..Len(describeLog) |-> describeLog[i].res.users])

\* A DescribeUsers request failed.
DescribeFailed == \E i \in 1..Len(describeLog) : describeLog[i].res.err # NoErr

\* The ListTags requests made for the user with ARN arn.
TagRequests(arn) == {i \in 1..Len(tagLog) : tagLog[i].arn = arn}

\* The user's ACL names contain the ACL asked for, and its tags were fetched
\* and include the managed tag with a true value.
IsManaged(u) ==
    /\ \E k \in 1..Len(u.acls) : u.acls[k] = aclName
    /\ \E i \in TagRequests(u.arn) :
        /\ tagLog[i].res.err = NoErr
        /\ \E j \in 1..Len(tagLog[i].res.tags) :
            tagLog[i].res.tags[j] = [isManagedKey |-> TRUE, isValueTrue |-> TRUE]

\* C18: getManagedUsersForACL fails only when the listing of the region's
\* users failed, never for a failure to fetch tags.  Otherwise it returns the
\* listed users that have the ACL asked for and whose tags were fetched and
\* include the managed tag with a true value, in the order listed and each
\* once; the tags of every listed user with the ACL were asked for once,
\* whatever the requests before returned, and every failure was logged.
C18_ManagedUsersForACL ==
    fetchLog # <<>> =>
        /\ (fetchLog[1].err # NoErr) <=> DescribeFailed
        /\ fetchLog[1].err = NoErr =>
            /\ fetchLog[1].users = SelectSeq(Listed, IsManaged)
            /\ \A i, j \in 1..Len(fetchLog[1].users) :
                  i # j => fetchLog[1].users[i].arn # fetchLog[1].users[j].arn
            /\ \A k \in 1..Len(Listed) :
                  Cardinality(TagRequests(Listed[k].arn))
                    = IF Contains(Listed[k].acls, aclName) THEN 1 ELSE 0
            /\ Len(logs) = Cardinality({i \in 1..Len(tagLog) : tagLog[i].res.err # NoErr})

\* Two users with the ACL were listed; the tags of the first could not be
\* fetched (access denied), the second carries the managed tag twice: the
\* call returned the second user alone, once, and no error.
C18_Witness ==
    /\ fetchLog # <<>> /\ fetchLog[1].err = NoErr
    /\ Len(Listed) = 2 /\ Len(tagLog) = 2
    /\ tagLog[1].res.err = AccessDenied
    /\ tagLog[2].res.err = NoErr /\ Len(tagLog[2].res.tags) = 2
    /\ \A j \in 1..2 : IsManagedTag(tagLog[2].res.tags[j])
    /\ fetchLog[1].users = <<Listed[2]>>

\* The loop of getUsersForRegion has ended without an error.
Listing == fpc \in {"range", "tags"} \/ (fetchLog # <<>> /\ ~DescribeFailed)

\* C20: the loop of getUsersForRegion ends.  It makes at most MaxPages
\* requests, the first without a token and each other one with the token of
\* the page before, and none after a failed request or after a page without a
\* next token.  A failed request makes the call return an error and no
\* users.  Otherwise the loop ends at the first page without a next token,
\* or after MaxPages pages that all had one, with the users of all the pages
\* in page order and no error.  With requests that return, a call leaves the
\* loop.
C20_PagingTerminates ==
    /\ [](/\ Len(describeLog) <= MaxPages
          /\ fpc = "describe" => Len(describeLog) < MaxPages
          /\ \A i \in 1..Len(describeLog) :
              /\ describeLog[i].token
                   = IF i = 1 THEN NoToken ELSE describeLog[i - 1].res.nextToken
              /\ i < Len(describeLog)
                   => /\ describeLog[i].res.err = NoErr
                      /\ describeLog[i].res.nextToken # NoToken
          /\ DescribeFailed
               => fpc = "idle" /\ fetchLog = <<[users |-> <<>>, err |-> Wrapped]>>
          /\ Listing
               => /\ ~DescribeFailed
                  /\ users = Listed
                  /\ \/ Len(describeLog) = MaxPages
                     \/ /\ describeLog # <<>>
                        /\ describeLog[Len(describeLog)].res.nextToken = NoToken
          /\ (fetchLog # <<>> /\ ~DescribeFailed) => fetchLog[1].err = NoErr)
    /\ FetcherRuns => ((fpc = "describe") ~> (fpc # "describe"))

\* Every page had a next token: the loop stopped after MaxPages requests and
\* the call returned without an error, having gathered a user from each of
\* two pages.
C20_Witness ==
    /\ fetchLog # <<>> /\ fetchLog[1].err = NoErr
    /\ Len(describeLog) = MaxPages
    /\ \A i \in 1..Len(describeLog) : describeLog[i].res.nextToken # NoToken
    /\ Len(describeLog[1].res.users) = 1 /\ Len(describeLog[2].res.users) = 1
    /\ users = Listed /\ Len(users) = 2

\* The arguments of the i-th call of ModifyUserPassword.
CallArgs(i) == IF i <= Len(modifyLog) THEN [old |-> modifyLog[i].old, new |-> modifyLog[i].new]
               ELSE mcall

\* C19: every call of ModifyUserPassword sends one UpdateUser request, for
\* the resource's user.  Its passwords are the old one then the new one,
\* without the empty ones, so at most two; its type is "no-password" when both
\* are empty and "password" otherwise.  The call returns an error exactly
\* when the request failed.
C19_ModifyUserPassword ==
    /\ Len(updateLog) = Len(modifyLog) + (IF mpc = "update" THEN 1 ELSE 0)
    /\ \A i \in 1..Len(updateLog) :
        LET NonEmpty(p) == p # ""
            old == CallArgs(i).old
            new == CallArgs(i).new
        IN  /\ updateLog[i].userName = UserName
            /\ updateLog[i].passwords = SelectSeq(<<old, new>>, NonEmpty)
            /\ Len(updateLog[i].passwords) <= 2
            /\ (updateLog[i].type = "no-password") <=> (old = "" /\ new = "")
            /\ updateLog[i].type \in {"no-password", "password"}
    /\ \A i \in 1..Len(modifyLog) :
        (modifyLog[i].err # NoErr) <=> (modifyLog[i].reqErr # NoErr)

\* A call without passwords sent the type "no-password" and returned nil; a
\* call with two passwords sent them old first, the request failed and the
\* call returned an error.
C19_Witness ==
    /\ Len(modifyLog) = 2
    /\ modifyLog[1].old = "" /\ modifyLog[1].new = ""
    /\ updateLog[1].passwords = <<>> /\ updateLog[1].type = "no-password"
    /\ modifyLog[1].err = NoErr
    /\ modifyLog[2].old = "p1" /\ modifyLog[2].new = "p2"
    /\ updateLog[2].passwords = <<"p1", "p2">> /\ updateLog[2].type = "password"
    /\ modifyLog[2].err # NoErr

====
